---------------------------- MODULE Spec2Model ----------------------------
(***************************************************************************)
(* Field-level encryption layer of the Eunoia backend                      *)
(* (src/src/utils/encryption.js): getEncryptionKey, encrypt, decrypt.      *)
(*                                                                         *)
(* A JavaScript string is a sequence of UTF-16 code units (naturals), a    *)
(* Buffer is a sequence of bytes (0..255).  A JavaScript value is a record *)
(* [t |-> type name, v |-> payload]; the payload of a string is its code   *)
(* units, the payload of a number or boolean is a one-element sequence.    *)
(*                                                                         *)
(* The Node.js primitives the code calls are modelled by what they do:     *)
(* UTF-8 encoding and decoding, lenient hex decoding, String.split, and    *)
(* AES-256-GCM as a counter-mode stream cipher with a 16 byte tag.  The    *)
(* block cipher itself is idealised: the key stream and the tag are        *)
(* deterministic mixing functions of (key, iv, position) and of            *)
(* (key, iv, ciphertext), chosen so that different inputs of the explored  *)
(* domain give different tags.  A 32 byte key is abstracted to a key       *)
(* number.                                                                 *)
(***************************************************************************)
EXTENDS Naturals, Sequences, FiniteSets

VARIABLES
    env,      \* process.env.ENCRYPTION_KEY of the running process
    text,     \* the plaintext the handlers of this run protect
    input,    \* the value a direct call of encrypt or decrypt is given
    tokens,   \* the tokens written so far, oldest first (the stored fields)
    nOld,     \* how many of them were written by an earlier process
    last,     \* the most recent encrypt/decrypt call and what it did
    build,    \* which copy of the chat model and controller is deployed
    now,      \* the calendar day of the server clock
    db,       \* the MongoDB collections
    reqs,     \* the request handlers in flight, each at one of its awaits
    resp,     \* the most recent HTTP response of the running process
    dotenv    \* the .env file next to the sources

vars == <<env, text, input, tokens, nOld, last, build, now, db, reqs, resp, dotenv>>

\* what the cipher-level runs observe, and what the API-level runs hold
cipherVars == <<text, input, tokens, nOld, last>>
apiVars == <<build, now, db, reqs, resp>>

--------------------------------------------------------------------------
(* Program constants *)

IV_LENGTH == 16

AUTH_TAG_LENGTH == 16

--------------------------------------------------------------------------
(* Bounds *)

\* longest plaintext, in UTF-16 code units
MaxLen == 2

\* how many stored tokens a run keeps
MaxTokens == 2
MaxReqs == 2
MaxDay == 3
MaxChecks == 2
MaxSessions == 2
MaxMessages == 1

\* how many times save() runs again on a stored document
MaxSaves == 1

\* how many journal entries the store holds
MaxEntries == 2

\* how many messages a chat history of the streak runs holds
MaxHistory == 3

\* how many pieces a .env file is made of
MaxPieces == 3

--------------------------------------------------------------------------
(* Characters and JavaScript values *)

\* ':', the delimiter of the token format
Colon == 58

\* code units plaintexts are built from: 'a' (97), ':', and the two halves
\* 0xD83D, 0xDE0A of U+1F60A (a smiling-face emoji), which may also occur
\* alone, as JSON.parse of "\ud83d" delivers them
Alphabet == {97, Colon, 55357, 56842}

RECURSIVE SeqsUpTo(_, _)
SeqsUpTo(S, n) ==
    IF n = 0 THEN {<<>>}
    ELSE LET shorter == SeqsUpTo(S, n - 1)
         IN  shorter \cup {Append(s, c) : s \in shorter, c \in S}

Str(cs) == [t |-> "string", v |-> cs]
JsNull == [t |-> "null", v |-> <<>>]
JsUndefined == [t |-> "undefined", v |-> <<>>]
JsNumber(n) == [t |-> "number", v |-> <<n>>]
JsBoolean(b) == [t |-> "boolean", v |-> <<IF b THEN 1 ELSE 0>>]
JsObject == [t |-> "object", v |-> <<>>]

\* the state of a file that does not exist
NoEnvFile == [exists |-> FALSE, content |-> <<>>]

\* x == null in place of !x
Falsy_nullish(x) == x.t \in {"null", "undefined"}

\* !x
Falsy(x) ==
    \/ x.t \in {"null", "undefined"}
    \/ x.t = "string" /\ x.v = <<>>
    \/ x.t \in {"number", "boolean"} /\ x.v = <<0>>

\* a call's outcome: a returned value, or a thrown Error with its message
Returned(x) == [thrown |-> FALSE, msg |-> "", val |-> x]
Thrown(m) == [thrown |-> TRUE, msg |-> m, val |-> JsUndefined]

--------------------------------------------------------------------------
(* Encodings *)

IsHigh(c) == c >= 55296 /\ c <= 56319
IsLow(c) == c >= 56320 /\ c <= 57343
IsCont(b) == b >= 128 /\ b <= 191

RECURSIVE Flatten(_, _, _)
\* chunks[lo] \o ... \o chunks[hi]
Flatten(chunks, lo, hi) ==
    IF lo > hi THEN <<>>
    ELSE IF lo = hi THEN chunks[lo]
    ELSE Flatten(chunks, lo, (lo + hi) \div 2)
         \o Flatten(chunks, (lo + hi) \div 2 + 1, hi)

RECURSIVE Utf8Encode(_)
\* Buffer.from(s, 'utf8'): four ASCII characters at a time where there are
\* four, else one character; a high surrogate followed by a low one gives
\* the four bytes of the pair, a lone surrogate gives U+FFFD
Utf8Encode(cs) ==
    IF cs = <<>> THEN <<>>
    ELSE IF Len(cs) >= 4 /\ cs[1] < 128 /\ cs[2] < 128 /\ cs[3] < 128 /\ cs[4] < 128
    THEN SubSeq(cs, 1, 4) \o Utf8Encode(Tail(Tail(Tail(Tail(cs)))))
    ELSE LET c == Head(cs)
         IN  IF c < 128 THEN <<c>> \o Utf8Encode(Tail(cs))
             ELSE IF c < 2048
             THEN <<192 + (c \div 64), 128 + (c % 64)>> \o Utf8Encode(Tail(cs))
             ELSE IF IsHigh(c) /\ Len(cs) >= 2 /\ IsLow(cs[2])
             THEN LET cp == 65536 + (c - 55296) * 1024 + (cs[2] - 56320)
                  IN  <<240 + (cp \div 262144), 128 + ((cp \div 4096) % 64),
                        128 + ((cp \div 64) % 64), 128 + (cp % 64)>>
                      \o Utf8Encode(Tail(Tail(cs)))
             ELSE IF IsHigh(c) \/ IsLow(c)
             THEN <<239, 191, 189>> \o Utf8Encode(Tail(cs))
             ELSE <<224 + (c \div 4096), 128 + ((c \div 64) % 64), 128 + (c % 64)>>
                  \o Utf8Encode(Tail(cs))

RECURSIVE Utf8Decode(_)
\* buf.toString('utf8'): four ASCII bytes at a time where there are four,
\* else one well-formed sequence, or U+FFFD for a byte that starts none
Utf8Decode(bs) ==
    IF bs = <<>> THEN <<>>
    ELSE IF Len(bs) >= 4 /\ bs[1] < 128 /\ bs[2] < 128 /\ bs[3] < 128 /\ bs[4] < 128
    THEN SubSeq(bs, 1, 4) \o Utf8Decode(Tail(Tail(Tail(Tail(bs)))))
    ELSE LET b == Head(bs)
             n == Len(bs)
         IN  IF b < 128 THEN <<b>> \o Utf8Decode(Tail(bs))
             ELSE IF b >= 194 /\ b <= 223 /\ n >= 2 /\ IsCont(bs[2])
             THEN <<(b - 192) * 64 + (bs[2] - 128)>> \o Utf8Decode(SubSeq(bs, 3, n))
             ELSE IF b >= 224 /\ b <= 239 /\ n >= 3 /\ IsCont(bs[2]) /\ IsCont(bs[3])
                     /\ (b - 224) * 4096 + (bs[2] - 128) * 64 >= 2048
                     /\ ~IsHigh((b - 224) * 4096 + (bs[2] - 128) * 64)
                     /\ ~IsLow((b - 224) * 4096 + (bs[2] - 128) * 64)
             THEN <<(b - 224) * 4096 + (bs[2] - 128) * 64 + (bs[3] - 128)>>
                  \o Utf8Decode(SubSeq(bs, 4, n))
             ELSE IF b >= 240 /\ b <= 244 /\ n >= 4 /\ IsCont(bs[2]) /\ IsCont(bs[3])
                     /\ IsCont(bs[4])
                     /\ (b - 240) * 262144 + (bs[2] - 128) * 4096 >= 65536
                     /\ (b - 240) * 262144 + (bs[2] - 128) * 4096 < 1114112
             THEN LET cp == (b - 240) * 262144 + (bs[2] - 128) * 4096
                            + (bs[3] - 128) * 64 + (bs[4] - 128) - 65536
                  IN  <<55296 + (cp \div 1024), 56320 + (cp % 1024)>>
                      \o Utf8Decode(SubSeq(bs, 5, n))
             ELSE <<65533>> \o Utf8Decode(Tail(bs))

\* upper-case digits
HexDigit_upper(n) == IF n < 10 THEN 48 + n ELSE 55 + n

\* one lowercase hex digit
HexDigit(n) == IF n < 10 THEN 48 + n ELSE 87 + n

\* buf.toString('hex')
HexEncode(bs) ==
    [i \in 1..(2 * Len(bs)) |->
        IF i % 2 = 1 THEN HexDigit(bs[(i + 1) \div 2] \div 16)
        ELSE HexDigit(bs[i \div 2] % 16)]

\* value of a hex digit of either case, 16 for any other character
HexVal(c) ==
    IF c >= 48 /\ c <= 57 THEN c - 48
    ELSE IF c >= 97 /\ c <= 102 THEN c - 87
    ELSE IF c >= 65 /\ c <= 70 THEN c - 55
    ELSE 16

RECURSIVE HexPairsFrom(_, _, _)
\* the number of leading pairs of hex digits among the first n pairs of cs,
\* the pairs before k being such pairs
HexPairsFrom(cs, n, k) ==
    IF k > n THEN n
    ELSE IF HexVal(cs[2 * k - 1]) = 16 \/ HexVal(cs[2 * k]) = 16 THEN k - 1
    ELSE HexPairsFrom(cs, n, k + 1)

HexPairs(cs, n) == HexPairsFrom(cs, n, 1)

\* Buffer.from(s, 'hex'): whole pairs of hex digits up to the first pair that
\* is not one; the rest of the string is dropped without an error
HexDecode(cs) ==
    [i \in 1..HexPairs(cs, Len(cs) \div 2) |->
        HexVal(cs[2 * i - 1]) * 16 + HexVal(cs[2 * i])]

\* s.includes(''), true of every string
Includes_empty(cs, c) == TRUE

\* s.includes(':')
Includes(cs, c) == \E i \in 1..Len(cs) : cs[i] = c

RECURSIVE SplitFrom(_, _, _, _)
\* s.split(':'): the segments between the delimiters, empty ones included;
\* the segment in progress starts at from, i is the character looked at, and
\* four characters without a delimiter are passed at a time
SplitFrom(cs, d, from, i) ==
    IF i > Len(cs) THEN <<SubSeq(cs, from, Len(cs))>>
    ELSE IF cs[i] = d
    THEN <<SubSeq(cs, from, i - 1)>> \o SplitFrom(cs, d, i + 1, i + 1)
    ELSE IF i + 3 <= Len(cs) /\ cs[i + 1] # d /\ cs[i + 2] # d /\ cs[i + 3] # d
    THEN SplitFrom(cs, d, from, i + 4)
    ELSE SplitFrom(cs, d, from, i + 1)

Split(cs, d) == SplitFrom(cs, d, 1, 1)

--------------------------------------------------------------------------
(* AES-256-GCM, idealised *)

\* the 32 byte keys of the model, as key numbers
Keys == {1, 2}

\* the values of ENCRYPTION_KEY: unset, or one of two passphrases
NoSecret == "unset"
Secrets == {"alpha", "beta"}
Envs == Secrets \cup {NoSecret}

\* crypto.randomBytes(IV_LENGTH): any 16 bytes; the model draws one of these
IVs == {[j \in 1..IV_LENGTH |-> (seed + j) % 256] : seed \in {0, 160}}

\* crypto.randomBytes(32) is called only when ENCRYPTION_KEY is unset: the
\* values it can return to a call under e (one placeholder when not called)
RandomKeys(e) == IF e = NoSecret THEN Keys ELSE {1}

\* crypto.scryptSync(key, 'salt', 32): deterministic, no two passphrases of
\* the model share a key
scryptSync(passphrase) == IF passphrase = "alpha" THEN 1 ELSE 2

RECURSIVE Xor(_, _)
Xor(a, b) ==
    IF a = 0 THEN b
    ELSE IF b = 0 THEN a
    ELSE ((a + b) % 2) + 2 * Xor(a \div 2, b \div 2)

RECURSIVE WeightedRange(_, _, _)
\* the sum of (2 * i + 1) * bs[i] for i from lo to hi
WeightedRange(bs, lo, hi) ==
    IF lo > hi THEN 0
    ELSE IF lo = hi THEN (2 * lo + 1) * bs[lo]
    ELSE WeightedRange(bs, lo, (lo + hi) \div 2)
         + WeightedRange(bs, (lo + hi) \div 2 + 1, hi)

WeightedSum(bs, n) == WeightedRange(bs, 1, n)

\* what the cipher state is keyed by after createCipheriv(ALGORITHM, key, iv)
CipherSeed(key, iv) == (key * 89 + WeightedSum(iv, Len(iv)) * 57 + Len(iv) * 11) % 256

\* byte i of the key stream of a cipher state
KeyStream(seed, i) == (seed * 3 + i * 101 + 23) % 256

\* counter mode: the same operation encrypts and decrypts
CtrXor(key, iv, bs) ==
    LET seed == CipherSeed(key, iv)
    IN  [i \in 1..Len(bs) |-> Xor(bs[i], KeyStream(seed, i))]

TagBytes(d) == [j \in 1..AUTH_TAG_LENGTH |-> (d * (2 * j + 1) + 17 * j) % 256]

\* cipher.getAuthTag(): the 16 byte tag of (key, iv, ciphertext)
GcmTag(key, iv, ct) ==
    TagBytes((CipherSeed(key, iv) * 67 + WeightedSum(ct, Len(ct)) * 3
              + Len(ct) * 131 + 7) % 256)

\* tag lengths decipher.setAuthTag accepts for GCM when createDecipheriv is
\* given no authTagLength option
ValidGcmTagLengths == {4, 8, 12, 13, 14, 15, 16}

--------------------------------------------------------------------------
(* src/src/utils/encryption.js *)

\* a key derived from a literal instead of the configured passphrase
getEncryptionKey_literal(e, rkey) == [key |-> 1, warned |-> FALSE]

\* the random key taken without the console.error warnings
getEncryptionKey_silent(e, rkey) ==
    [key |-> IF e = NoSecret THEN rkey ELSE scryptSync(e), warned |-> FALSE]

\* getEncryptionKey(): called by every encrypt and decrypt call.  rkey is
\* what crypto.randomBytes(32) returns on this call, should it be made.
getEncryptionKey(e, rkey) ==
    IF e = NoSecret
    THEN [key |-> rkey, warned |-> TRUE]
    ELSE [key |-> scryptSync(e), warned |-> FALSE]

\* what one call did besides returning: the key it obtained (none: {}), the
\* nonce it drew, and what it wrote to console.error
Call(res, keys, iv, warned, errlog) ==
    [res |-> res, keys |-> keys, iv |-> iv, warned |-> warned, errlog |-> errlog]

\* the tag written before the nonce
FormatToken_tagFirst(iv, authTag, encrypted) ==
    HexEncode(authTag) \o <<Colon>> \o HexEncode(iv) \o <<Colon>> \o encrypted

\* the template literal of encrypt's return statement
FormatToken(iv, authTag, encrypted) ==
    HexEncode(iv) \o <<Colon>> \o HexEncode(authTag) \o <<Colon>> \o encrypted

\* the nonce drawn once, at module load, and used by every call
encrypt_staticIv(x, e, rkey, riv) ==
    IF Falsy(x) \/ x.t # "string"
    THEN Call(Returned(x), {}, <<>>, FALSE, FALSE)
    ELSE LET k == getEncryptionKey(e, rkey)
             iv0 == [j \in 1..IV_LENGTH |-> j]
             ct == CtrXor(k.key, iv0, Utf8Encode(x.v))
         IN  Call(Returned(Str(FormatToken(iv0, GcmTag(k.key, iv0, ct), HexEncode(ct)))),
                  {k.key}, riv, k.warned, FALSE)

\* encrypt(text); riv is what crypto.randomBytes(IV_LENGTH) returns.  The
\* cipher calls cannot fail for a 32 byte key and a 16 byte iv, so the catch
\* block is never entered.
encrypt(x, e, rkey, riv) ==
    IF Falsy(x) \/ x.t # "string"
    THEN Call(Returned(x), {}, <<>>, FALSE, FALSE)
    ELSE LET k == getEncryptionKey(e, rkey)
             ct == CtrXor(k.key, riv, Utf8Encode(x.v))
             encrypted == HexEncode(ct)
             authTag == GcmTag(k.key, riv, ct)
         IN  Call(Returned(Str(FormatToken(riv, authTag, encrypted))),
                  {k.key}, riv, k.warned, FALSE)

\* the authenticated decryption of decrypt's try block, once the token has
\* split into three parts: the calls that can throw, in the code's order
Decipher(key, ivHex, authTagHex, encryptedData) ==
    LET iv == HexDecode(ivHex)
        authTag == HexDecode(authTagHex)
        ct == HexDecode(encryptedData)
        expected == GcmTag(key, iv, ct)
    IN  IF iv = <<>> THEN Thrown("Invalid initialization vector")
        ELSE IF Len(authTag) \notin ValidGcmTagLengths
        THEN Thrown("Invalid authentication tag length")
        ELSE IF Len(encryptedData) % 2 # 0
        THEN Thrown("The argument 'encoding' is invalid for data of length")
        ELSE IF SubSeq(expected, 1, Len(authTag)) # authTag
        THEN Thrown("Unsupported state or unable to authenticate data")
        ELSE Returned(Str(Utf8Decode(CtrXor(key, iv, ct))))

\* decrypt(encryptedText)
decrypt(x, e, rkey) ==
    IF Falsy(x) \/ x.t # "string"
    THEN Call(Returned(x), {}, <<>>, FALSE, FALSE)
    ELSE IF ~Includes(x.v, Colon)
    THEN Call(Returned(x), {}, <<>>, FALSE, FALSE)
    ELSE LET parts == Split(x.v, Colon)
         IN  IF Len(parts) # 3
             THEN Call(Thrown("Failed to decrypt data"), {}, <<>>, FALSE, TRUE)
             ELSE LET k == getEncryptionKey(e, rkey)
                      r == Decipher(k.key, parts[1], parts[2], parts[3])
                  IN  IF r.thrown
                      THEN Call(Thrown("Failed to decrypt data"), {k.key}, <<>>,
                                k.warned, TRUE)
                      ELSE Call(r, {k.key}, <<>>, k.warned, FALSE)

--------------------------------------------------------------------------
(* What a party with write access to the store can do to a stored token *)

Join(parts) == parts[1] \o <<Colon>> \o parts[2] \o <<Colon>> \o parts[3]

\* another hex digit in the first place: the first byte changes by 16 or more
FlipFirst(seg) == <<IF seg[1] = 48 THEN 49 ELSE 48>> \o Tail(seg)

\* the hex letters in upper case: the same bytes, written differently
UpperCase(seg) ==
    [i \in 1..Len(seg) |-> IF seg[i] >= 97 /\ seg[i] <= 102 THEN seg[i] - 32 ELSE seg[i]]

Tampers == {"iv_flip", "tag_flip", "ct_flip", "tag_short", "tag_upper"}

Tamper(kind, token) ==
    LET p == Split(token, Colon)
    IN  CASE kind = "iv_flip" -> Join(<<FlipFirst(p[1]), p[2], p[3]>>)
          [] kind = "tag_flip" -> Join(<<p[1], FlipFirst(p[2]), p[3]>>)
          [] kind = "ct_flip" -> Join(<<p[1], p[2], FlipFirst(p[3])>>)
          [] kind = "tag_short" -> Join(<<p[1], SubSeq(p[2], 1, 8), p[3]>>)
          [] kind = "tag_upper" -> Join(<<p[1], UpperCase(p[2]), p[3]>>)
          [] OTHER -> token

--------------------------------------------------------------------------
(* The store and the requests *)

\* req.user._id of the authenticated users
Users == {"u1", "u2"}

\* concurrent request handlers
ReqIds == 1..MaxReqs

\* the collections, empty; nextSid counts the session ids generated so far
EmptyDb ==
    [wellness |-> <<>>, sessions |-> <<>>, messages |-> <<>>, nextSid |-> 1,
     journal |-> <<>>]

\* req.body: mood (wellness), the text field (analysis, title or content)
\* and the answers (wellness), each as sent or undefined
Body(mood, txt, answers) == [mood |-> mood, text |-> txt, answers |-> answers]

\* a handler slot with no request in it
IdleReq ==
    [pc |-> "idle", user |-> "u1", sid |-> 0,
     body |-> Body(JsUndefined, JsUndefined, <<>>)]

NoReqs == [r \in ReqIds |-> IdleReq]

\* a new request is given the first handler slot that holds none
FreeSlot(r) ==
    /\ reqs[r].pc = "idle"
    /\ \A q \in ReqIds : q < r => reqs[q].pc # "idle"

\* res.status(status).json({ ..., data }): `data` lists the documents of the
\* body as serialised, `ids` their positions in the collection, `failed`
\* whether a decrypt call made for this response threw
Response(op, user, status, data, ids, failed) ==
    [op |-> op, user |-> user, status |-> status, data |-> data, ids |-> ids,
     failed |-> failed]

NoResp == Response("none", "u1", 0, <<>>, <<>>, FALSE)

\* no request was made yet
ApiIdle ==
    /\ build = "src"
    /\ now = 1
    /\ db = EmptyDb
    /\ reqs = NoReqs
    /\ resp = NoResp

--------------------------------------------------------------------------
(* The process: handlers that protect `text` and read the stored tokens *)

\* non-empty plaintexts up to the bound
Texts == SeqsUpTo(Alphabet, MaxLen) \ {<<>>}

\* the plaintexts a process run protects: "a", "a:", the emoji U+1F60A, and
\* its first half alone
PlainTexts == {<<97>>, <<97, Colon>>, <<55357, 56842>>, <<55357>>}

Observe(op, arg, c, slot, kind) ==
    [op |-> op, arg |-> arg, res |-> c.res, keys |-> c.keys, iv |-> c.iv,
     warned |-> c.warned, errlog |-> c.errlog, slot |-> slot, tamper |-> kind]

Idle(op) ==
    Observe(op, JsUndefined, Call(Returned(JsUndefined), {}, <<>>, FALSE, FALSE), 0, "none")

Init ==
    /\ env \in Envs
    /\ dotenv = NoEnvFile
    /\ text \in PlainTexts
    /\ input = JsUndefined
    /\ tokens = <<>>
    /\ nOld = 0
    /\ last = Idle("start")
    /\ ApiIdle

\* a write handler assigns a protected field: the setter calls encrypt and
\* the returned token is stored
Encrypt ==
    /\ Len(tokens) < MaxTokens
    /\ \E rkey \in RandomKeys(env), riv \in IVs :
          LET c == encrypt(Str(text), env, rkey, riv)
          IN  /\ last' = Observe("encrypt", Str(text), c, Len(tokens) + 1, "none")
              /\ tokens' = Append(tokens, [token |-> c.res.val.v, env |-> env,
                                           keys |-> c.keys, iv |-> c.iv])
    /\ UNCHANGED <<env, text, input, nOld>>
    /\ UNCHANGED <<apiVars, dotenv>>

\* decrypt called on stored token i after the store changed it by `kind`
DecryptStored(i, kind) ==
    /\ \E rkey \in RandomKeys(env) :
          LET arg == Str(Tamper(kind, tokens[i].token))
          IN  last' = Observe("decrypt", arg, decrypt(arg, env, rkey), i, kind)
    /\ UNCHANGED <<env, text, input, tokens, nOld>>
    /\ UNCHANGED <<apiVars, dotenv>>

\* a read handler materialises a protected field: the getter calls decrypt
\* on the stored token
Decrypt == \E i \in 1..Len(tokens) : DecryptStored(i, "none")

\* the process ends and a new one starts, with the same or another
\* ENCRYPTION_KEY; the store is kept, the requests in flight are lost
Restart ==
    /\ \E e \in Envs : env' = e
    /\ nOld' = Len(tokens)
    /\ last' = Idle("restart")
    /\ reqs' = NoReqs
    /\ resp' = NoResp
    /\ UNCHANGED <<text, input, tokens, build, now, db, dotenv>>

Next == Encrypt \/ Decrypt \/ Restart

Spec == Init /\ [][Next]_vars

--------------------------------------------------------------------------
(* Reads of tokens that were changed in the store *)

DecryptTampered == \E i \in 1..Len(tokens), kind \in Tampers : DecryptStored(i, kind)

NextTamper == Encrypt \/ DecryptTampered

SpecTamper == Init /\ [][NextTamper]_vars

--------------------------------------------------------------------------
(* encrypt and decrypt called directly on any value *)

\* null, undefined, '', numbers, booleans, an object, and every plaintext
Values ==
    {JsNull, JsUndefined, JsNumber(0), JsNumber(7), JsBoolean(FALSE), JsBoolean(TRUE),
     JsObject, Str(<<>>)} \cup {Str(cs) : cs \in Texts}

InitFn ==
    /\ env \in Envs
    /\ dotenv = NoEnvFile
    /\ input \in Values
    /\ text = <<>>
    /\ tokens = <<>>
    /\ nOld = 0
    /\ last = Idle("start")
    /\ ApiIdle

EncryptInput ==
    /\ \E rkey \in RandomKeys(env), riv \in IVs :
          last' = Observe("encrypt", input, encrypt(input, env, rkey, riv), 0, "none")
    /\ UNCHANGED <<env, text, input, tokens, nOld>>
    /\ UNCHANGED <<apiVars, dotenv>>

\* decrypt of the value as it is: a stored value that was never encrypted
DecryptInput ==
    /\ \E rkey \in RandomKeys(env) :
          last' = Observe("decrypt", input, decrypt(input, env, rkey), 0, "none")
    /\ UNCHANGED <<env, text, input, tokens, nOld>>
    /\ UNCHANGED <<apiVars, dotenv>>

\* decrypt of what the encrypt call just returned
DecryptOutput ==
    /\ last.op = "encrypt"
    /\ \E rkey \in RandomKeys(env) :
          last' = Observe("roundtrip", last.res.val,
                          decrypt(last.res.val, env, rkey), 0, "none")
    /\ UNCHANGED <<env, text, input, tokens, nOld>>
    /\ UNCHANGED <<apiVars, dotenv>>

NextFn == EncryptInput \/ DecryptInput \/ DecryptOutput

SpecFn == InitFn /\ [][NextFn]_vars

--------------------------------------------------------------------------
(* models/WellnessCheck (src/unnamed/part_007) and src/src/routes/wellnessRoutes.js *)

\* the nonce drawn by the setters and hooks of the API-level runs
StoreIVs == {[j \in 1..IV_LENGTH |-> j]}

\* the request bodies of POST /api/wellness: mood 0 or 5, analysis "a",
\* answers absent ({}) or { q1: "a" }
WellnessBodies ==
    {Body(JsNumber(m), Str(<<97>>), a) : m \in {0, 5}, a \in {<<>>, << <<97>> >>}}

\* one random key for each of n encrypt or decrypt calls
KeyDraws(e, n) == [1..n -> RandomKeys(e)]

\* the plaintexts the requests of the API-level runs carry: "a" and the
\* default chat title 'New Chat'
StoreTexts == {<<97>>, <<78, 101, 119, 32, 67, 104, 97, 116>>}

\* encrypt on each of them, for every key and nonce it can draw
EncryptTable ==
    [x \in StoreTexts, e \in Envs, rkey \in Keys, riv \in StoreIVs |->
        encrypt(Str(x), e, rkey, riv)]

\* the tokens encrypt returns for them
StoreTokens ==
    {EncryptTable[x, e, rkey, riv].res.val.v :
        x \in StoreTexts, e \in Envs, rkey \in Keys, riv \in StoreIVs}

\* the strings a protected field can hold in the store: plaintexts, tokens,
\* and tokens with a changed ciphertext byte
StoredStrings ==
    StoreTexts \cup StoreTokens \cup {Tamper("ct_flip", t) : t \in StoreTokens}

\* decrypt on each of them, for every key it can draw
DecryptTable ==
    [x \in StoredStrings, e \in Envs, rkey \in Keys |-> decrypt(Str(x), e, rkey)]

\* a setter or hook calling encrypt(value)
StoreEncrypt(value, e, rkey, riv) ==
    IF value.t = "string" /\ value.v \in StoreTexts
    THEN EncryptTable[value.v, e, rkey, riv]
    ELSE encrypt(value, e, rkey, riv)

\* a getter or hook calling decrypt(value)
StoreDecrypt(value, e, rkey) ==
    IF value.t = "string" /\ value.v \in StoredStrings
    THEN DecryptTable[value.v, e, rkey]
    ELSE decrypt(value, e, rkey)

\* the analysis setter
SetAnalysis(value, e, rkey, riv) == StoreEncrypt(value, e, rkey, riv)

\* the analysis getter
GetAnalysis(value, e, rkey) == StoreDecrypt(value, e, rkey)

\* pre('save'): every answers value is replaced by encrypt(value)
PreSave(answers, e, rks, riv) ==
    [i \in 1..Len(answers) |-> StoreEncrypt(Str(answers[i]), e, rks[i], riv).res.val.v]

\* PostFind, except that one failing entry makes the hook keep every entry
PostFind_allOrNothing(answers, e, rks) ==
    LET c(i) == StoreDecrypt(Str(answers[i]), e, rks[i])
        bad == \E i \in 1..Len(answers) : c(i).res.thrown
    IN  [answers |-> [i \in 1..Len(answers) |->
                         IF bad THEN answers[i] ELSE c(i).res.val.v],
         failed |-> bad]

\* post('find') and post('findOne') on a hydrated document: every answers
\* value is replaced by decrypt(value); a value whose decrypt throws is kept
PostFind(answers, e, rks) ==
    LET c(i) == StoreDecrypt(Str(answers[i]), e, rks[i])
    IN  [answers |-> [i \in 1..Len(answers) |->
                         IF c(i).res.thrown THEN answers[i] ELSE c(i).res.val.v],
         failed |-> \E i \in 1..Len(answers) : c(i).res.thrown]

\* a document as it appears in a response body
View(analysis, answers) == [text |-> analysis, answers |-> answers]

\* res.json of a hydrated wellness document (toJSON with getters): the
\* getter decrypts analysis; answers are what the document holds in memory
ToJSONWellness(doc, answers, e, rkey) ==
    LET c == GetAnalysis(Str(doc.analysis), e, rkey)
    IN  [thrown |-> c.res.thrown,
         view |-> View(IF c.res.thrown THEN <<>> ELSE c.res.val.v, answers)]

\* statics.getTodayCheck: the position of the first check of the user whose
\* completedAt lies in today, 0 for null
getTodayCheck(u) ==
    LET hits == {i \in 1..Len(db.wellness) :
                    db.wellness[i].userId = u /\ db.wellness[i].day = now}
    IN  IF hits = {} THEN 0 ELSE CHOOSE i \in hits : \A j \in hits : i <= j

\* the response for a check found by findOne: hook, then serialisation
FoundCheck(op, u, status, i, e, rks, rkey) ==
    LET h == PostFind(db.wellness[i].answers, e, rks)
        j == ToJSONWellness(db.wellness[i], h.answers, e, rkey)
    IN  IF j.thrown
        THEN Response(op, u, 500, <<>>, <<>>, TRUE)
        ELSE Response(op, u, status, <<j.view>>, <<i>>, h.failed)

\* requests accepted but not yet stored
Creating == {r \in ReqIds : reqs[r].pc = "create"}

\* POST /api/wellness up to the await of getTodayCheck
PostWellness(r, u, b) ==
    /\ FreeSlot(r)
    /\ Len(db.wellness) + Cardinality(Creating) < MaxChecks
    /\ IF Falsy(b.mood) \/ Falsy(b.text)
       THEN /\ resp' = Response("POST /wellness", u, 400, <<>>, <<>>, FALSE)
            /\ UNCHANGED reqs
       ELSE LET i == getTodayCheck(u)
            IN  IF i # 0
                THEN /\ \E rks \in KeyDraws(env, Len(db.wellness[i].answers)),
                           rkey \in RandomKeys(env) :
                           resp' = FoundCheck("POST /wellness", u, 400, i, env, rks, rkey)
                     /\ UNCHANGED reqs
                ELSE /\ reqs' = [reqs EXCEPT ![r] =
                                   [pc |-> "create", user |-> u, sid |-> 0, body |-> b]]
                     /\ UNCHANGED resp
    /\ UNCHANGED <<env, build, now, db>>
    /\ UNCHANGED <<cipherVars, dotenv>>

\* POST /api/wellness from WellnessCheck.create to the response
PostWellnessCreate(r) ==
    /\ reqs[r].pc = "create"
    /\ \E rkey \in RandomKeys(env), riv \in StoreIVs,
          rks \in KeyDraws(env, Len(reqs[r].body.answers)),
          rget \in RandomKeys(env) :
          LET b == reqs[r].body
              doc == [userId |-> reqs[r].user, day |-> now, mood |-> b.mood.v[1],
                      analysis |-> SetAnalysis(b.text, env, rkey, riv).res.val.v,
                      answers |-> PreSave(b.answers, env, rks, riv),
                      env |-> env, saves |-> 1,
                      plain |-> View(b.text.v, b.answers)]
              j == ToJSONWellness(doc, doc.answers, env, rget)
          IN  /\ db' = [db EXCEPT !.wellness = Append(@, doc)]
              /\ resp' = IF j.thrown
                         THEN Response("POST /wellness", reqs[r].user, 500, <<>>, <<>>, TRUE)
                         ELSE Response("POST /wellness", reqs[r].user, 201, <<j.view>>,
                                       <<Len(db.wellness) + 1>>, FALSE)
    /\ reqs' = [reqs EXCEPT ![r] = IdleReq]
    /\ UNCHANGED <<env, build, now>>
    /\ UNCHANGED <<cipherVars, dotenv>>

\* GET /api/wellness/today
GetToday(u) ==
    /\ LET i == getTodayCheck(u)
       IN  IF i = 0
           THEN resp' = Response("GET /wellness/today", u, 200, <<>>, <<>>, FALSE)
           ELSE \E rks \in KeyDraws(env, Len(db.wellness[i].answers)),
                   rkey \in RandomKeys(env) :
                   resp' = FoundCheck("GET /wellness/today", u, 200, i, env, rks, rkey)
    /\ UNCHANGED <<env, build, now, db, reqs>>
    /\ UNCHANGED <<cipherVars, dotenv>>

RECURSIVE Newest(_, _)
\* find({ userId }).sort({ completedAt: -1 }): the positions of the user's
\* documents among the first n, newest first
Newest(u, n) ==
    IF n = 0 THEN <<>>
    ELSE IF db.wellness[n].userId = u THEN <<n>> \o Newest(u, n - 1)
    ELSE Newest(u, n - 1)

\* GET /api/wellness/history: the query is lean, so the documents are the
\* stored objects: no getter runs, and the post('find') hook sees plain
\* objects whose answers have no size
GetHistory(u) ==
    /\ LET ids == Newest(u, Len(db.wellness))
       IN  resp' = Response("GET /wellness/history", u, 200,
                            [k \in 1..Len(ids) |->
                                View(db.wellness[ids[k]].analysis, db.wellness[ids[k]].answers)],
                            ids, FALSE)
    /\ UNCHANGED <<env, build, now, db, reqs>>
    /\ UNCHANGED <<cipherVars, dotenv>>

RECURSIVE StreakLoop(_, _, _, _)
\* the loop of statics.getStreak over the days of the checks, newest first
\* from position k on: daysDiff 0 and daysDiff 1 both count the check and
\* move checkDate one day back, any other daysDiff ends the loop
StreakLoop(days, k, checkDate, streak) ==
    IF k > Len(days) THEN streak
    ELSE IF checkDate = days[k] THEN StreakLoop(days, k + 1, checkDate - 1, streak + 1)
    ELSE IF checkDate = days[k] + 1 THEN StreakLoop(days, k + 1, checkDate - 1, streak + 1)
    ELSE streak

\* statics.getStreak: 0 without checks, else the loop started at today
getStreak(u) ==
    IF Newest(u, Len(db.wellness)) = <<>> THEN 0
    ELSE StreakLoop([k \in 1..Len(Newest(u, Len(db.wellness))) |->
                        db.wellness[Newest(u, Len(db.wellness))[k]].day],
                    1, now, 0)

\* GET /api/wellness/streak
GetStreak(u) ==
    /\ resp' = Response("GET /wellness/streak", u, 200, <<getStreak(u)>>, <<>>, FALSE)
    /\ UNCHANGED <<env, build, now, db, reqs>>
    /\ UNCHANGED <<cipherVars, dotenv>>

\* the first answers value of stored check i is damaged in the store: a byte
\* of its ciphertext changes
DamageStored(i) ==
    /\ db.wellness[i].answers # <<>>
    /\ db.wellness[i].answers[1] \in StoreTokens
    /\ db' = [db EXCEPT !.wellness[i].answers[1] = Tamper("ct_flip", @)]
    /\ UNCHANGED <<env, build, now, reqs, resp>>
    /\ UNCHANGED <<cipherVars, dotenv>>

DamageAnswer == \E i \in 1..Len(db.wellness) : DamageStored(i)

\* midnight passes on the server clock
Tick ==
    /\ now < MaxDay
    /\ now' = now + 1
    /\ UNCHANGED <<env, build, db, reqs, resp>>
    /\ UNCHANGED <<cipherVars, dotenv>>

\* a server process has started on an empty store
ServerStarted ==
    /\ env \in Envs
    /\ dotenv = NoEnvFile
    /\ text = <<>>
    /\ input = JsUndefined
    /\ tokens = <<>>
    /\ nOld = 0
    /\ last = Idle("restart")

InitWellness == ServerStarted /\ ApiIdle

NextWellness ==
    \/ \E r \in ReqIds, u \in Users, b \in WellnessBodies : PostWellness(r, u, b)
    \/ \E r \in ReqIds : PostWellnessCreate(r)
    \/ \E u \in Users : GetToday(u)
    \/ \E u \in Users : GetHistory(u)
    \/ \E u \in Users : GetStreak(u)
    \/ DamageAnswer
    \/ Tick
    \/ Restart

SpecWellness == InitWellness /\ [][NextWellness]_vars

--------------------------------------------------------------------------
(* The hooks of models/WellnessCheck on one stored check *)

\* the token of "a" made under secret "alpha"
TokenOfA == EncryptTable[<<97>>, "alpha", 1, CHOOSE riv \in StoreIVs : TRUE].res.val.v

\* the stored answers maps of the check: one or two entries, each the token
\* of "a" or, written before encryption was introduced, the plaintext "a"
HookAnswers == SeqsUpTo({TokenOfA, <<97>>}, 2) \ {<<>>}

\* a check of user u1 of today, written under secret "alpha"
StoredCheck(answers) ==
    [userId |-> "u1", day |-> 1, mood |-> 5, analysis |-> TokenOfA,
     answers |-> answers, env |-> "alpha", saves |-> 1,
     plain |-> View(<<97>>, [k \in 1..Len(answers) |-> <<97>>])]

\* save() on the document as WellnessCheck.create returned it: the document
\* holds the answers the first pre('save') left in it, and pre('save') runs
\* over them again
SaveCreatedAt(i) ==
    /\ db.wellness[i].saves <= MaxSaves
    /\ \E rks \in KeyDraws(env, Len(db.wellness[i].answers)), riv \in StoreIVs :
          db' = [db EXCEPT !.wellness[i].answers = PreSave(@, env, rks, riv),
                           !.wellness[i].saves = @ + 1]
    /\ resp' = Response("save", db.wellness[i].userId, 0, <<>>, <<i>>, FALSE)
    /\ UNCHANGED <<env, build, now, reqs>>
    /\ UNCHANGED <<cipherVars, dotenv>>

\* findOne, then save() on the document found: post('findOne') has put the
\* decrypted answers into the document, pre('save') runs over those
SaveFoundAt(i) ==
    /\ db.wellness[i].saves <= MaxSaves
    /\ \E rds \in KeyDraws(env, Len(db.wellness[i].answers)),
          rks \in KeyDraws(env, Len(db.wellness[i].answers)), riv \in StoreIVs :
          db' = [db EXCEPT !.wellness[i].answers =
                               PreSave(PostFind(@, env, rds).answers, env, rks, riv),
                           !.wellness[i].saves = @ + 1]
    /\ resp' = Response("findOne, save", db.wellness[i].userId, 0, <<>>, <<i>>, FALSE)
    /\ UNCHANGED <<env, build, now, reqs>>
    /\ UNCHANGED <<cipherVars, dotenv>>

SaveCreated == \E i \in 1..Len(db.wellness) : SaveCreatedAt(i)

SaveFound == \E i \in 1..Len(db.wellness) : SaveFoundAt(i)

InitHook ==
    /\ ServerStarted
    /\ build = "src"
    /\ now = 1
    /\ \E a \in HookAnswers : db = [EmptyDb EXCEPT !.wellness = <<StoredCheck(a)>>]
    /\ reqs = NoReqs
    /\ resp = NoResp

NextHook ==
    \/ \E u \in Users : GetToday(u)
    \/ SaveCreated
    \/ SaveFound
    \/ DamageAnswer
    \/ Restart

SpecHook == InitHook /\ [][NextHook]_vars

\* the reads of the stored check alone, by a process started under any of
\* the secrets, with damaged entries
NextFind ==
    \/ \E u \in Users : GetToday(u)
    \/ DamageAnswer

SpecFind == InitHook /\ [][NextFind]_vars

--------------------------------------------------------------------------
(* The chat models and controllers.  The repository holds two copies:       *)
(* build "src" is src/src/models/Chat.js with                               *)
(* src/src/controllers/chatController.js, build "root" is                   *)
(* src/unnamed/part_006 with src/unnamed/part_003.                          *)

Builds == {"src", "root"}

\* generateSessionId(): 16 random bytes, taken as a value not seen before
SessionIds == 1..MaxSessions

\* the title and content setters: encrypt in part_006, none in Chat.js
SetChatField(b, value, e, rkey, riv) ==
    IF b = "root" THEN StoreEncrypt(value, e, rkey, riv) ELSE Call(Returned(value), {}, <<>>, FALSE, FALSE)

\* the title and content getters: decrypt in part_006, none in Chat.js
GetChatField(b, value, e, rkey) ==
    IF b = "root" THEN StoreDecrypt(value, e, rkey) ELSE Call(Returned(value), {}, <<>>, FALSE, FALSE)

\* a chat document as it appears in a response body, with its owner
ChatView(kind, doc, txt) ==
    [kind |-> kind, sessionId |-> doc.sessionId, userId |-> doc.userId, text |-> txt]

\* toJSON / toObject of a session or message (getters applied)
ToJSONChat(kind, doc, e, rkey) ==
    LET c == GetChatField(build, Str(doc.text), e, rkey)
    IN  [thrown |-> c.res.thrown,
         view |-> ChatView(kind, doc, IF c.res.thrown THEN <<>> ELSE c.res.val.v)]

\* the position of the session with this sessionId and userId, 0 for null
FindSession(sid, u) ==
    LET hits == {i \in 1..Len(db.sessions) :
                    db.sessions[i].sessionId = sid /\ db.sessions[i].userId = u}
    IN  IF hits = {} THEN 0 ELSE CHOOSE i \in hits : TRUE

\* the positions of the messages with this sessionId and userId, oldest first
RECURSIVE FindMessages(_, _, _)
FindMessages(sid, u, n) ==
    IF n = 0 THEN <<>>
    ELSE IF db.messages[n].sessionId = sid /\ db.messages[n].userId = u
         THEN Append(FindMessages(sid, u, n - 1), n)
         ELSE FindMessages(sid, u, n - 1)

\* the serialised documents, and whether a getter threw
SerialiseAll(kind, docs, e, rks, n) ==
    [thrown |-> \E k \in 1..n : ToJSONChat(kind, docs[k], e, rks[k]).thrown,
     views |-> [k \in 1..n |-> ToJSONChat(kind, docs[k], e, rks[k]).view]]

\* the documents at the given positions of a collection
Pick(coll, ids) == [k \in 1..Len(ids) |-> coll[ids[k]]]

\* the request bodies of the chat routes: the text (title or content) is
\* absent, '' or "a"
ChatBodies == {Body(JsUndefined, t, <<>>) : t \in {JsUndefined, Str(<<>>), Str(<<97>>)}}

\* the bodies of POST /api/chat/sessions explored: no title
NoTitleBodies == {b \in ChatBodies : b.text = JsUndefined}

\* the bodies of POST .../messages explored: content '' or "a"
ContentBodies == {b \in ChatBodies : b.text.t = "string"}

\* title || 'New Chat'
TitleOrDefault(t) == IF Falsy(t) THEN Str(<<78, 101, 119, 32, 67, 104, 97, 116>>) ELSE t

\* what ChatSession.find matches in getChatSessions.  chatController.js
\* filters by req.user._id and isActive.  part_003 filters by
\* req.user.userId, a path the User schema does not have: the filter value
\* is undefined, which the driver either drops (every session matches) or
\* sends as null (none matches)
ListedSessions(u, dropUndefined) ==
    IF build = "src"
    THEN SelectSeq(db.sessions, LAMBDA s : s.userId = u /\ s.isActive)
    ELSE IF dropUndefined THEN db.sessions ELSE <<>>

\* the sessions whose toObject did not throw (part_003 skips the others)
Decryptable(docs, e, rks, n) ==
    LET all == [k \in 1..n |-> ToJSONChat("session", docs[k], e, rks[k])]
        kept == SelectSeq(all, LAMBDA j : ~j.thrown)
    IN  [k \in 1..Len(kept) |-> kept[k].view]

\* GET /api/chat/sessions
GetChatSessions(u) ==
    /\ \E dropUndefined \in BOOLEAN :
          LET docs == ListedSessions(u, dropUndefined)
          IN  \E rks \in KeyDraws(env, Len(docs)) :
                 IF build = "src"
                 THEN LET j == SerialiseAll("session", docs, env, rks, Len(docs))
                      IN  resp' = Response("getChatSessions", u, 200, j.views, <<>>, FALSE)
                 ELSE LET views == Decryptable(docs, env, rks, Len(docs))
                      IN  resp' = Response("getChatSessions", u, 200, views, <<>>,
                                           Len(views) # Len(docs))
    /\ UNCHANGED <<env, build, now, db, reqs>>
    /\ UNCHANGED <<cipherVars, dotenv>>

\* GET /api/chat/sessions/:sessionId
GetChatSession(u, sid) ==
    /\ LET i == FindSession(sid, u)
           ms == Pick(db.messages, FindMessages(sid, u, Len(db.messages)))
       IN  \E rkey \in RandomKeys(env), rks \in KeyDraws(env, Len(ms)) :
              LET jm == SerialiseAll("message", ms, env, rks, Len(ms))
                  js == ToJSONChat("session", db.sessions[i], env, rkey)
              IN  resp' =
                    IF build = "root" /\ (jm.thrown \/ (i # 0 /\ js.thrown))
                    THEN Response("getChatSession", u, 500, <<>>, <<sid>>, TRUE)
                    ELSE IF i = 0
                    THEN Response("getChatSession", u, 404, <<>>, <<sid>>, FALSE)
                    ELSE Response("getChatSession", u, 200, <<js.view>> \o jm.views,
                                  <<sid>>, FALSE)
    /\ UNCHANGED <<env, build, now, db, reqs>>
    /\ UNCHANGED <<cipherVars, dotenv>>

\* POST /api/chat/sessions
CreateChatSession(u, b) ==
    /\ db.nextSid <= MaxSessions
    /\ \E rkey \in RandomKeys(env), riv \in StoreIVs, rlog \in RandomKeys(env),
          rget \in RandomKeys(env) :
          LET t == TitleOrDefault(b.text)
              doc == [sessionId |-> db.nextSid, userId |-> u,
                      text |-> SetChatField(build, t, env, rkey, riv).res.val.v,
                      isActive |-> TRUE, env |-> env, plain |-> t.v]
              logged == ToJSONChat("session", doc, env, rlog)
              j == ToJSONChat("session", doc, env, rget)
          IN  /\ db' = [db EXCEPT !.sessions = Append(@, doc), !.nextSid = @ + 1]
              /\ resp' =
                    IF (build = "root" /\ logged.thrown) \/ j.thrown
                    THEN Response("createChatSession", u, 500, <<>>, <<db.nextSid>>, TRUE)
                    ELSE Response("createChatSession", u, 201, <<j.view>>, <<db.nextSid>>, FALSE)
    /\ UNCHANGED <<env, build, now, reqs>>
    /\ UNCHANGED <<cipherVars, dotenv>>

\* PUT /api/chat/sessions/:sessionId: findOneAndUpdate runs the title setter
UpdateChatSession(u, sid) ==
    /\ LET i == FindSession(sid, u)
       IN  IF i = 0
           THEN /\ resp' = Response("updateChatSession", u, 404, <<>>, <<sid>>, FALSE)
                /\ UNCHANGED db
           ELSE \E rkey \in RandomKeys(env), riv \in StoreIVs, rget \in RandomKeys(env) :
                   LET doc == [db.sessions[i] EXCEPT
                                  !.text = SetChatField(build, Str(<<97>>), env, rkey, riv).res.val.v,
                                  !.env = env, !.plain = <<97>>]
                       j == ToJSONChat("session", doc, env, rget)
                   IN  /\ db' = [db EXCEPT !.sessions[i] = doc]
                       /\ resp' =
                             IF j.thrown
                             THEN Response("updateChatSession", u, 500, <<>>, <<sid>>, TRUE)
                             ELSE Response("updateChatSession", u, 200, <<j.view>>, <<sid>>, FALSE)
    /\ UNCHANGED <<env, build, now, reqs>>
    /\ UNCHANGED <<cipherVars, dotenv>>

\* POST /api/chat/sessions/:sessionId/messages up to the await of findOne
AddChatMessage(r, u, sid, b) ==
    /\ FreeSlot(r)
    /\ Len(db.messages) + Cardinality({q \in ReqIds : reqs[q].pc = "add_create"}) < MaxMessages
    /\ IF Falsy(b.text)
       THEN /\ resp' = Response("addChatMessage", u, 400, <<>>, <<sid>>, FALSE)
            /\ UNCHANGED reqs
       ELSE IF FindSession(sid, u) = 0
       THEN /\ resp' = Response("addChatMessage", u, 404, <<>>, <<sid>>, FALSE)
            /\ UNCHANGED reqs
       ELSE /\ reqs' = [reqs EXCEPT ![r] =
                          [pc |-> "add_create", user |-> u, sid |-> sid, body |-> b]]
            /\ UNCHANGED resp
    /\ UNCHANGED <<env, build, now, db>>
    /\ UNCHANGED <<cipherVars, dotenv>>

\* addChatMessage: ChatMessage.create; the handler keeps the created
\* document, whose content is what the setter returned
AddCreate(r) ==
    /\ reqs[r].pc = "add_create"
    /\ \E rkey \in RandomKeys(env), riv \in StoreIVs :
          LET stored == SetChatField(build, reqs[r].body.text, env, rkey, riv).res.val
          IN  /\ db' = [db EXCEPT !.messages = Append(@,
                          [sessionId |-> reqs[r].sid, userId |-> reqs[r].user,
                           role |-> "user", day |-> now,
                           text |-> stored.v, env |-> env,
                           plain |-> reqs[r].body.text.v])]
              /\ reqs' = [reqs EXCEPT ![r].pc = "add_save", ![r].body.text = stored]
    /\ UNCHANGED <<env, build, now, resp>>
    /\ UNCHANGED <<cipherVars, dotenv>>

\* addChatMessage: session.save() and the response.  save() of a document
\* that is no longer stored rejects (DocumentNotFoundError)
AddSave(r) ==
    /\ reqs[r].pc = "add_save"
    /\ \E rget \in RandomKeys(env) :
          LET m == [sessionId |-> reqs[r].sid, userId |-> reqs[r].user,
                    text |-> reqs[r].body.text.v]
              j == ToJSONChat("message", m, env, rget)
          IN  resp' =
                IF FindSession(reqs[r].sid, reqs[r].user) = 0
                THEN Response("addChatMessage", reqs[r].user, 500, <<>>, <<reqs[r].sid>>, FALSE)
                ELSE IF j.thrown
                THEN Response("addChatMessage", reqs[r].user, 500, <<>>, <<reqs[r].sid>>, TRUE)
                ELSE Response("addChatMessage", reqs[r].user, 201, <<j.view>>,
                              <<reqs[r].sid>>, FALSE)
    /\ reqs' = [reqs EXCEPT ![r] = IdleReq]
    /\ UNCHANGED <<env, build, now, db>>
    /\ UNCHANGED <<cipherVars, dotenv>>

\* DELETE /api/chat/sessions/:sessionId up to the await of findOne
DeleteChatSession(r, u, sid) ==
    /\ FreeSlot(r)
    /\ IF FindSession(sid, u) = 0
       THEN /\ resp' = Response("deleteChatSession", u, 404, <<>>, <<sid>>, FALSE)
            /\ UNCHANGED reqs
       ELSE /\ reqs' = [reqs EXCEPT ![r] =
                          [pc |-> IF build = "src" THEN "del_soft" ELSE "del_messages",
                           user |-> u, sid |-> sid, body |-> IdleReq.body]]
            /\ UNCHANGED resp
    /\ UNCHANGED <<env, build, now, db>>
    /\ UNCHANGED <<cipherVars, dotenv>>

\* chatController.js: session.isActive = false; session.save()
DeleteSoft(r) ==
    /\ reqs[r].pc = "del_soft"
    /\ LET i == FindSession(reqs[r].sid, reqs[r].user)
       IN  db' = [db EXCEPT !.sessions[i].isActive = FALSE]
    /\ resp' = Response("deleteChatSession", reqs[r].user, 200, <<>>, <<reqs[r].sid>>, FALSE)
    /\ reqs' = [reqs EXCEPT ![r] = IdleReq]
    /\ UNCHANGED <<env, build, now>>
    /\ UNCHANGED <<cipherVars, dotenv>>

\* part_003: ChatMessage.deleteMany({ sessionId, userId })
DeleteMessages(r) ==
    /\ reqs[r].pc = "del_messages"
    /\ db' = [db EXCEPT !.messages = SelectSeq(@, LAMBDA m :
                  ~(m.sessionId = reqs[r].sid /\ m.userId = reqs[r].user))]
    /\ reqs' = [reqs EXCEPT ![r].pc = "del_session"]
    /\ UNCHANGED <<env, build, now, resp>>
    /\ UNCHANGED <<cipherVars, dotenv>>

\* part_003: ChatSession.deleteOne({ sessionId, userId }) and the response
DeleteSession(r) ==
    /\ reqs[r].pc = "del_session"
    /\ db' = [db EXCEPT !.sessions = SelectSeq(@, LAMBDA s :
                  ~(s.sessionId = reqs[r].sid /\ s.userId = reqs[r].user))]
    /\ resp' = Response("deleteChatSession", reqs[r].user, 200, <<>>, <<reqs[r].sid>>, FALSE)
    /\ reqs' = [reqs EXCEPT ![r] = IdleReq]
    /\ UNCHANGED <<env, build, now>>
    /\ UNCHANGED <<cipherVars, dotenv>>

\* a build starts on an empty store, with a configured secret
InitChat(b) ==
    /\ ServerStarted
    /\ env = "alpha"
    /\ build = b
    /\ now = 1
    /\ db = EmptyDb
    /\ reqs = NoReqs
    /\ resp = NoResp

\* the routes of src/src/routes/chatRoutes.js
ChatRoutes ==
    \/ \E u \in Users : GetChatSessions(u)
    \/ \E u \in Users, sid \in SessionIds : GetChatSession(u, sid)
    \/ \E u \in Users, b \in NoTitleBodies : CreateChatSession(u, b)
    \/ \E u \in Users, sid \in SessionIds : UpdateChatSession(u, sid)
    \/ \E r \in ReqIds, u \in Users, sid \in SessionIds, b \in ContentBodies :
          AddChatMessage(r, u, sid, b)
    \/ \E r \in ReqIds : AddCreate(r)
    \/ \E r \in ReqIds : AddSave(r)
    \/ \E r \in ReqIds, u \in Users, sid \in SessionIds : DeleteChatSession(r, u, sid)

InitChatSrc == InitChat("src")

NextChatSrc == ChatRoutes \/ \E r \in ReqIds : DeleteSoft(r)

SpecChatSrc == InitChatSrc /\ [][NextChatSrc]_vars

InitChatRoot == InitChat("root")

NextChatRoot ==
    \/ ChatRoutes
    \/ \E r \in ReqIds : DeleteMessages(r)
    \/ \E r \in ReqIds : DeleteSession(r)

SpecChatRoot == InitChatRoot /\ [][NextChatRoot]_vars

--------------------------------------------------------------------------
(* models/JournalEntry (src/unnamed/part_005) and                           *)
(* src/src/controllers/journalController.js                                 *)

\* 'neutral', the default of the mood path; 'sad'; 'joy'
Neutral == <<110, 101, 117, 116, 114, 97, 108>>
Sad == <<115, 97, 100>>
Joy == <<106, 111, 121>>

\* req.body of the journal routes
JournalBody(title, content, mood, tags, isPrivate) ==
    [title |-> title, content |-> content, mood |-> mood, tags |-> tags,
     isPrivate |-> isPrivate]

\* the bodies of POST /api/journal: title 'a', 'New Chat' or '' (rejected by
\* the validation), content 'a', mood absent or 'sad'
CreateBodies ==
    {JournalBody(t, Str(<<97>>), m, JsUndefined, JsUndefined) :
        t \in {Str(x) : x \in StoreTexts} \cup {Str(<<>>)},
        m \in {JsUndefined, Str(Sad)}}

\* what analyzeJournalEntry resolves to: no analysis, or an analysis with
\* primary_emotion 'joy' and the tag 'w'
MlResults ==
    {[success |-> FALSE, emotion |-> <<>>, tags |-> <<>>],
     [success |-> TRUE, emotion |-> Joy, tags |-> << <<119>> >>]}

\* the bodies of PUT /api/journal/:id: { title: 'a' } and { mood: 'sad' };
\* every other field is omitted
UpdateBodies ==
    {JournalBody(Str(<<97>>), JsUndefined, JsUndefined, JsUndefined, JsUndefined),
     JournalBody(JsUndefined, JsUndefined, Str(Sad), JsUndefined, JsUndefined)}

\* POST /api/journal bodies that pass the validation and carry no mood
PlainCreateBodies == {b \in CreateBodies : ~Falsy(b.title) /\ b.mood = JsUndefined}

\* analyzeJournalEntry gave no analysis
MlFailed == {ml \in MlResults : ~ml.success}

\* req.query.query of GET /api/journal/search: absent, 'w' or 'a'; none
\* holds a regular expression metacharacter
SearchQueries == {JsUndefined, Str(<<119>>), Str(<<97>>)}

\* req.query.mood
MoodFilters == {JsUndefined, Str(Sad)}

\* a character with an upper case letter folded to lower case
LowerCase(c) == IF c >= 65 /\ c <= 90 THEN c + 32 ELSE c

\* { $regex: q, $options: 'i' } on a string, for q without metacharacters:
\* q occurs in it, letter case ignored
RegexMatch(cs, q) ==
    \E i \in 1..Len(cs) :
        /\ i + Len(q) - 1 <= Len(cs)
        /\ \A k \in 1..Len(q) : LowerCase(cs[i + k - 1]) = LowerCase(q[k])

\* the title and content setters
SetJournalField(value, e, rkey, riv) == StoreEncrypt(value, e, rkey, riv)

\* the title and content getters
GetJournalField(value, e, rkey) == StoreDecrypt(value, e, rkey)

\* toJSON of an entry (getters applied to title and content)
ToJSONJournal(doc, e, rks) ==
    LET t == GetJournalField(Str(doc.title), e, rks[1])
        c == GetJournalField(Str(doc.content), e, rks[2])
    IN  [thrown |-> t.res.thrown \/ c.res.thrown,
         view |-> [title |-> IF t.res.thrown THEN <<>> ELSE t.res.val.v,
                   content |-> IF c.res.thrown THEN <<>> ELSE c.res.val.v,
                   mood |-> doc.mood, tags |-> doc.tags, isPrivate |-> doc.isPrivate]]

\* the members of a set of positions, largest first: sort({ createdAt: -1 })
NewestFirst(S) ==
    [k \in 1..Cardinality(S) |->
        CHOOSE i \in S : Cardinality({j \in S : j > i}) = k - 1]

\* POST /api/journal
CreateJournalEntry(u, b, ml) ==
    /\ Len(db.journal) < MaxEntries
    /\ IF Falsy(b.title) \/ Falsy(b.content)
       THEN /\ resp' = Response("createJournalEntry", u, 400, <<>>, <<>>, FALSE)
            /\ UNCHANGED db
       ELSE \E rks \in KeyDraws(env, 2), riv \in StoreIVs, rgs \in KeyDraws(env, 2) :
               LET doc == [userId |-> u,
                           title |-> SetJournalField(b.title, env, rks[1], riv).res.val.v,
                           content |-> SetJournalField(b.content, env, rks[2], riv).res.val.v,
                           mood |-> IF ml.success THEN ml.emotion
                                    ELSE IF b.mood.t = "undefined" THEN Neutral
                                    ELSE b.mood.v,
                           tags |-> IF ml.success THEN ml.tags
                                    ELSE IF Falsy(b.tags) THEN <<>> ELSE b.tags.v,
                           isPrivate |-> IF b.isPrivate.t # "undefined"
                                         THEN b.isPrivate.v = <<1>> ELSE TRUE,
                           env |-> env,
                           plain |-> [title |-> b.title.v, content |-> b.content.v]]
                   j == ToJSONJournal(doc, env, rgs)
               IN  /\ db' = [db EXCEPT !.journal = Append(@, doc)]
                   /\ resp' =
                         IF j.thrown
                         THEN Response("createJournalEntry", u, 500, <<>>, <<>>, TRUE)
                         ELSE Response("createJournalEntry", u, 201, <<j.view>>,
                                       <<Len(db.journal) + 1>>, FALSE)
    /\ UNCHANGED <<env, build, now, reqs>>
    /\ UNCHANGED <<cipherVars, dotenv>>

\* the entries JournalEntry.find(searchQuery) matches: the regular
\* expression is applied to the stored title, the stored content and every
\* tag
SearchHits(u, q, m) ==
    {i \in 1..Len(db.journal) :
        /\ db.journal[i].userId = u
        /\ Falsy(q) \/ RegexMatch(db.journal[i].title, q.v)
                    \/ RegexMatch(db.journal[i].content, q.v)
                    \/ \E k \in 1..Len(db.journal[i].tags) :
                          RegexMatch(db.journal[i].tags[k], q.v)
        /\ Falsy(m) \/ db.journal[i].mood = m.v}

\* GET /api/journal/search
SearchJournalEntries(u, q, m) ==
    /\ LET ids == NewestFirst(SearchHits(u, q, m))
       IN  \E rks \in KeyDraws(env, 2) :
              resp' =
                IF \E k \in 1..Len(ids) : ToJSONJournal(db.journal[ids[k]], env, rks).thrown
                THEN Response("searchJournalEntries", u, 500, <<>>, <<>>, TRUE)
                ELSE Response("searchJournalEntries", u, 200,
                              [k \in 1..Len(ids) |->
                                  ToJSONJournal(db.journal[ids[k]], env, rks).view],
                              ids, FALSE)
    /\ UNCHANGED <<env, build, now, db, reqs>>
    /\ UNCHANGED <<cipherVars, dotenv>>

\* PUT /api/journal/:id up to the await of findOne: the handler keeps the
\* entry it found
UpdateJournalEntry(r, u, id, b) ==
    /\ FreeSlot(r)
    /\ IF id > Len(db.journal) \/ db.journal[IF id > Len(db.journal) THEN 1 ELSE id].userId # u
       THEN /\ resp' = Response("updateJournalEntry", u, 404, <<>>, <<id>>, FALSE)
            /\ UNCHANGED reqs
       ELSE /\ reqs' = [reqs EXCEPT ![r] =
                          [pc |-> "update", user |-> u, sid |-> id, body |-> b,
                           entry |-> db.journal[id]]]
            /\ UNCHANGED resp
    /\ UNCHANGED <<env, build, now, db>>
    /\ UNCHANGED <<cipherVars, dotenv>>

\* updateJournalEntry: findByIdAndUpdate and the response.  Every path is
\* in the update: a value of the body, or the value of the entry found
\* (title and content through their getters); the setters run on the update
UpdateWrite(r) ==
    /\ reqs[r].pc = "update"
    /\ \E rds \in KeyDraws(env, 2), rks \in KeyDraws(env, 2), riv \in StoreIVs,
          rgs \in KeyDraws(env, 2) :
          LET b == reqs[r].body
              entry == reqs[r].entry
              id == reqs[r].sid
              oldTitle == GetJournalField(Str(entry.title), env, rds[1])
              oldContent == GetJournalField(Str(entry.content), env, rds[2])
              thrown == \/ Falsy(b.title) /\ oldTitle.res.thrown
                        \/ Falsy(b.content) /\ oldContent.res.thrown
              title == IF Falsy(b.title) THEN oldTitle.res.val ELSE b.title
              content == IF Falsy(b.content) THEN oldContent.res.val ELSE b.content
              doc == [db.journal[id] EXCEPT
                         !.title = SetJournalField(title, env, rks[1], riv).res.val.v,
                         !.content = SetJournalField(content, env, rks[2], riv).res.val.v,
                         !.mood = IF Falsy(b.mood) THEN entry.mood ELSE b.mood.v,
                         !.tags = IF b.tags.t # "undefined" THEN b.tags.v ELSE entry.tags,
                         !.isPrivate = IF b.isPrivate.t # "undefined"
                                       THEN b.isPrivate.v = <<1>> ELSE entry.isPrivate,
                         !.env = env,
                         !.plain = [title |-> title.v, content |-> content.v]]
              j == ToJSONJournal(doc, env, rgs)
          IN  IF thrown
              THEN /\ resp' = Response("updateJournalEntry", reqs[r].user, 500, <<>>,
                                       <<id>>, TRUE)
                   /\ UNCHANGED db
              ELSE /\ db' = [db EXCEPT !.journal[id] = doc]
                   /\ resp' =
                         IF j.thrown
                         THEN Response("updateJournalEntry", reqs[r].user, 500, <<>>,
                                       <<id>>, TRUE)
                         ELSE Response("updateJournalEntry", reqs[r].user, 200, <<j.view>>,
                                       <<id>>, FALSE)
    /\ reqs' = [reqs EXCEPT ![r] = IdleReq]
    /\ UNCHANGED <<env, build, now>>
    /\ UNCHANGED <<cipherVars, dotenv>>

InitJournal == InitChat("src")

\* creating and searching
NextJournalSearch ==
    \/ \E u \in Users, b \in CreateBodies, ml \in MlResults : CreateJournalEntry(u, b, ml)
    \/ \E u \in Users, q \in SearchQueries, m \in MoodFilters : SearchJournalEntries(u, q, m)

SpecJournalSearch == InitJournal /\ [][NextJournalSearch]_vars

\* creating and updating
NextJournalUpdate ==
    \/ \E u \in Users, b \in PlainCreateBodies, ml \in MlFailed : CreateJournalEntry(u, b, ml)
    \/ \E r \in ReqIds, u \in Users, id \in 1..MaxEntries, b \in UpdateBodies :
          UpdateJournalEntry(r, u, id, b)
    \/ \E r \in ReqIds : UpdateWrite(r)

SpecJournalUpdate == InitJournal /\ [][NextJournalUpdate]_vars

--------------------------------------------------------------------------
(* getMindfulnessStreak (src/unnamed/part_003) *)

\* the streak loop starts at today whatever the day of the last chat
StreakStart_today(since, today) == today

\* where the streak loop starts: at yesterday when the last chat was
\* yesterday, else at today
StreakStart(since, today) == IF since = 1 THEN today - 1 ELSE today

\* the calendar days of the messages of user u with role 'user'
uniqueDaysSet(u) ==
    {db.messages[k].day :
        k \in {j \in 1..Len(db.messages) :
                  db.messages[j].userId = u /\ db.messages[j].role = "user"}}

RECURSIVE MindfulLoop(_, _, _, _)
\* the loop over uniqueDays from position k on: a day equal to checkDate is
\* counted and checkDate moves one day back, any other day ends the loop
MindfulLoop(days, k, checkDate, streak) ==
    IF k > Len(days) THEN streak
    ELSE IF checkDate = days[k] THEN MindfulLoop(days, k + 1, checkDate - 1, streak + 1)
    ELSE streak

\* data of the response of getMindfulnessStreak
mindfulnessStreak(u) ==
    IF uniqueDaysSet(u) = {} THEN [streak |-> 0, totalDays |-> 0]
    ELSE IF now - NewestFirst(uniqueDaysSet(u))[1] > 1
    THEN [streak |-> 0, totalDays |-> Cardinality(uniqueDaysSet(u))]
    ELSE [streak |-> MindfulLoop(NewestFirst(uniqueDaysSet(u)), 1,
                                 StreakStart(now - NewestFirst(uniqueDaysSet(u))[1], now), 0),
          totalDays |-> Cardinality(uniqueDaysSet(u))]

\* GET the mindfulness streak
GetMindfulnessStreak(u) ==
    /\ resp' = Response("getMindfulnessStreak", u, 200, <<mindfulnessStreak(u)>>, <<>>, FALSE)
    /\ UNCHANGED <<env, build, now, db, reqs>>
    /\ UNCHANGED <<cipherVars, dotenv>>

\* the session of user u: its sessionId is the position of u among the users
OwnSession(u) ==
    [sessionId |-> IF u = "u1" THEN 1 ELSE 2, userId |-> u,
     text |-> EncryptTable[<<78, 101, 119, 32, 67, 104, 97, 116>>, "alpha", 1,
                           CHOOSE riv \in StoreIVs : TRUE].res.val.v,
     isActive |-> TRUE, env |-> "alpha",
     plain |-> <<78, 101, 119, 32, 67, 104, 97, 116>>]

\* a message 'a' of user u in their session, sent on day d
ChatMessageOn(u, role, d) ==
    [sessionId |-> OwnSession(u).sessionId, userId |-> u, role |-> role, day |-> d,
     text |-> TokenOfA, env |-> "alpha", plain |-> <<97>>]

\* the message collections of the streak runs: up to MaxHistory messages of the
\* two users and the two roles, in the order they were sent
ChatHistories ==
    {h \in SeqsUpTo({ChatMessageOn(u, role, d) :
                        u \in Users, role \in {"user", "assistant"}, d \in 1..MaxDay}, MaxHistory) :
        \A k \in 1..Len(h) : k > 1 => h[k - 1].day <= h[k].day}

\* the server of build "root" with a chat history, on the day of the last
\* message
InitMindful ==
    /\ ServerStarted
    /\ env = "alpha"
    /\ build = "root"
    /\ \E h \in ChatHistories :
          /\ db = [EmptyDb EXCEPT !.sessions = <<OwnSession("u1"), OwnSession("u2")>>,
                                  !.nextSid = 3, !.messages = h]
          /\ now = IF h = <<>> THEN 1 ELSE h[Len(h)].day
    /\ reqs = NoReqs
    /\ resp = NoResp

NextMindful ==
    \/ \E u \in Users : GetMindfulnessStreak(u)
    \/ Tick

SpecMindful == InitMindful /\ [][NextMindful]_vars

--------------------------------------------------------------------------
(* The key-generation script (src/src/utils/generateEncryptionKey.js) *)

\* 'ENCRYPTION_KEY='
KeyEntry == <<69, 78, 67, 82, 89, 80, 84, 73, 79, 78, 95, 75, 69, 89, 61>>

\* the two comment lines the script writes above the key
KeyComment ==
    <<35, 32, 68, 97, 116, 97, 32, 69, 110, 99, 114, 121, 112, 116, 105, 111, 110, 32, 40, 75, 69, 69, 80, 32, 84, 72, 73, 83, 32, 83, 69, 67, 82, 69, 84, 33, 41, 10>>
    \o <<35, 32, 84, 104, 105, 115, 32, 107, 101, 121, 32, 105, 115, 32, 117, 115, 101, 100, 32, 116, 111, 32, 101, 110, 99, 114, 121, 112, 116, 32, 115, 101, 110, 115, 105, 116, 105, 118, 101, 32, 100, 97, 116, 97, 32, 105, 110, 32, 116, 104, 101, 32, 100, 97, 116, 97, 98, 97, 115, 101, 10>>

\* the white space and line terminators String.prototype.trimEnd removes
WhiteSpace == {9, 10, 11, 12, 13, 32, 160, 5760, 8232, 8233, 8239, 8287, 12288, 65279}
                  \cup (8192..8202)

\* s.trimEnd()
TrimEnd(cs) ==
    IF \A i \in 1..Len(cs) : cs[i] \in WhiteSpace THEN <<>>
    ELSE SubSeq(cs, 1, CHOOSE i \in 1..Len(cs) :
                          /\ cs[i] \notin WhiteSpace
                          /\ \A j \in (i + 1)..Len(cs) : cs[j] \in WhiteSpace)

\* s.includes(t) for a string t
IncludesText(cs, t) ==
    \E i \in 0..(Len(cs) - Len(t)) : SubSeq(cs, i + 1, i + Len(t)) = t

\* the script takes every file for one that holds no key
HasKeyEntry_never(content) == FALSE

\* envContent.includes('ENCRYPTION_KEY=')
HasKeyEntry(content) == IncludesText(content, KeyEntry)

\* crypto.randomBytes(32).toString('hex'), of one byte here
GeneratedKeys == {HexEncode(<<b>>) : b \in {161, 178}}

\* the content the script writes for a file without a key
newContent(envContent, key) ==
    TrimEnd(envContent) \o <<10, 10>> \o KeyComment \o KeyEntry \o key \o <<10>>

\* the files the script is run on: absent, or up to MaxPieces of the pieces
\* 'A=1', a line end, a space, '#' and a key line
EnvPieces ==
    {<<65, 61, 49>>, <<10>>, <<32>>, <<35>>, KeyEntry \o HexEncode(<<195>>) \o <<10>>}

EnvFiles ==
    {NoEnvFile}
        \cup {[exists |-> TRUE, content |-> Flatten(ps, 1, Len(ps))] :
                 ps \in SeqsUpTo(EnvPieces, MaxPieces)}

\* node generateEncryptionKey.js prints the key
GenerateKey(key) ==
    /\ last' = [Idle("generateEncryptionKey") EXCEPT !.arg = Str(key)]
    /\ UNCHANGED <<env, text, input, tokens, nOld>>
    /\ UNCHANGED apiVars

\* one run of the script: a file that cannot be read or that holds
\* 'ENCRYPTION_KEY=' is left alone, any other file is rewritten with the
\* generated key at its end
RunKeygen(key) ==
    /\ GenerateKey(key)
    /\ IF ~dotenv.exists \/ HasKeyEntry(dotenv.content)
       THEN UNCHANGED dotenv
       ELSE dotenv' = [dotenv EXCEPT !.content = newContent(dotenv.content, key)]

InitKeygen ==
    /\ env \in Envs
    /\ dotenv \in EnvFiles
    /\ text = <<>>
    /\ input = JsUndefined
    /\ tokens = <<>>
    /\ nOld = 0
    /\ last = Idle("start")
    /\ ApiIdle

NextKeygen == \E key \in GeneratedKeys : RunKeygen(key)

SpecKeygen == InitKeygen /\ [][NextKeygen]_vars

--------------------------------------------------------------------------
(* Properties *)

\* no surrogate half without its partner: the strings UTF-8 can carry
WellFormed(cs) ==
    \A i \in 1..Len(cs) :
        /\ IsHigh(cs[i]) => (i < Len(cs) /\ IsLow(cs[i + 1]))
        /\ IsLow(cs[i]) => (i > 1 /\ IsHigh(cs[i - 1]))

NonEmptyString(x) == x.t = "string" /\ x.v # <<>>

NoColon(cs) == \A k \in 1..Len(cs) : cs[k] # 58

\* the last call read stored token i, unchanged
ReadOf(i) == last.op = "decrypt" /\ last.slot = i /\ last.tamper = "none"

ReturnedText(cs) == ~last.res.thrown /\ last.res.val = Str(cs)

DecryptionFailure == last.res.thrown /\ last.res.msg = "Failed to decrypt data"

\* the keys obtained by the calls of the running process
KeysThisProcess ==
    last.keys \cup UNION {tokens[i].keys : i \in (nOld + 1)..Len(tokens)}

\* C1: a token written by encrypt(s) and read by decrypt in the same process
\* gives back exactly s, for every non-empty string s.
C1_RoundTrip ==
    \A i \in (nOld + 1)..Len(tokens) : ReadOf(i) => ReturnedText(text)

\* C2: decrypt of a stored token whose nonce, tag or ciphertext segment was
\* modified (same three-segment shape) signals DecryptionFailure and returns
\* no string.
C2_TamperDetected ==
    \A i \in 1..Len(tokens) :
        (/\ last.op = "decrypt" /\ last.slot = i
         /\ last.tamper # "none"
         /\ last.arg.v # tokens[i].token
         /\ Len(Split(last.arg.v, Colon)) = 3)
        => DecryptionFailure

\* C3: a token written under secret K1 and read while the configured secret
\* is K2 # K1 signals DecryptionFailure; no string is returned.
C3_KeyMismatch ==
    \A i \in 1..Len(tokens) :
        (/\ ReadOf(i)
         /\ tokens[i].env \in Secrets /\ env \in Secrets
         /\ tokens[i].env # env)
        => DecryptionFailure

C3_Witness ==
    \E i \in 1..Len(tokens) :
        /\ ReadOf(i)
        /\ tokens[i].env = "alpha" /\ env = "beta"
        /\ DecryptionFailure

\* C4: within one process lifetime every encrypt and decrypt call uses the
\* same key, with a configured secret and without one.
C4_KeyConstancy == Cardinality(KeysThisProcess) <= 1

\* C5 as stated: a token written under configured secret K is read back as
\* the original plaintext by any later process whose secret is still K.
C5_RestartStable_AnyString ==
    \A i \in 1..nOld :
        (ReadOf(i) /\ tokens[i].env \in Secrets /\ tokens[i].env = env)
        => ReturnedText(text)

\* C5 amended: the same for every plaintext that is well-formed UTF-16 (no
\* unpaired surrogate).
C5_RestartStable ==
    \A i \in 1..nOld :
        (ReadOf(i) /\ tokens[i].env \in Secrets /\ tokens[i].env = env
         /\ WellFormed(text))
        => ReturnedText(text)

C5_Witness ==
    \E i \in 1..nOld :
        /\ ReadOf(i) /\ tokens[i].env \in Secrets /\ tokens[i].env = env
        /\ text = <<55357, 56842>>
        /\ ReturnedText(text)

\* two stored tokens of the run's plaintext made under the same key
SameKeyPair(i, j) ==
    /\ i \in 1..Len(tokens) /\ j \in 1..Len(tokens) /\ i # j
    /\ tokens[i].keys = tokens[j].keys

LowerHex(seg) ==
    \A k \in 1..Len(seg) : (seg[k] >= 48 /\ seg[k] <= 57) \/ (seg[k] >= 97 /\ seg[k] <= 102)

\* C7: encrypt of a non-empty string returns nonce:tag:ciphertext, three
\* non-empty lowercase-hex segments separated by exactly two colons, the
\* nonce and the tag of 32 hex characters each.
C7_TokenFormat ==
    (last.op = "encrypt" /\ NonEmptyString(input)) =>
        /\ ~last.res.thrown
        /\ last.res.val.t = "string"
        /\ LET parts == Split(last.res.val.v, Colon)
           IN  /\ Len(parts) = 3
               /\ \A k \in 1..3 : parts[k] # <<>> /\ LowerHex(parts[k])
               /\ Len(parts[1]) = 32
               /\ Len(parts[2]) = 32
               /\ HexDecode(parts[1]) = last.iv
               /\ Len(parts[3]) = 2 * Len(Utf8Encode(input.v))

C7_Witness ==
    /\ last.op = "encrypt"
    /\ input = Str(<<55357, 56842>>)
    /\ Len(Split(last.res.val.v, Colon)) = 3
    /\ Len(last.res.val.v) = 74

\* C8: encrypt and decrypt return any input that is not a non-empty string
\* (null, undefined, '', a number, another non-string) unchanged, and do not
\* throw.
C8_Passthrough ==
    (last.op \in {"encrypt", "decrypt"} /\ ~NonEmptyString(input)) =>
        /\ ~last.res.thrown
        /\ last.res.val = input

C8_Witness ==
    /\ last.op = "decrypt"
    /\ input = Str(<<>>)
    /\ last.res = Returned(Str(<<>>))

\* C9: decrypt of a non-empty string without ':' returns it unchanged,
\* throws nothing and logs no failure.
C9_LegacyNoColon ==
    (last.op = "decrypt" /\ NonEmptyString(input) /\ NoColon(input.v)) =>
        /\ last.res = Returned(input)
        /\ ~last.errlog

C9_Witness ==
    /\ last.op = "decrypt"
    /\ input = Str(<<97, 97>>)
    /\ last.res = Returned(input)
    /\ ~last.errlog

\* C10: decrypt of a stored legacy plaintext (a non-empty string that encrypt
\* never produced, with or without ':') returns it unchanged and does not
\* fail.
C10_LegacyAnyString ==
    (last.op = "decrypt" /\ NonEmptyString(input)) => last.res = Returned(input)

\* C11: decrypt of a string that contains ':' but does not split on ':' into
\* exactly 3 segments throws the malformed-token error, an error the caller
\* can tell apart from DecryptionFailure, and returns no value.
C11_MalformedDistinct ==
    (/\ last.op = "decrypt" /\ NonEmptyString(input)
     /\ ~NoColon(input.v)
     /\ Len(Split(input.v, Colon)) # 3)
    => (last.res.thrown /\ ~DecryptionFailure)

\* C15: with no ENCRYPTION_KEY configured, encrypt of a non-empty string does
\* not fail: it logs the configuration warning and returns a well-formed
\* three-segment token made with the randomly generated key of the call.
C15_DegradedNonFatal ==
    (last.op = "encrypt" /\ NonEmptyString(input) /\ env = NoSecret) =>
        /\ ~last.res.thrown
        /\ last.warned
        /\ last.keys \subseteq Keys /\ Cardinality(last.keys) = 1
        /\ last.res.val.t = "string"
        /\ LET parts == Split(last.res.val.v, Colon)
           IN  /\ Len(parts) = 3
               /\ \A k \in last.keys :
                      /\ parts[3] = HexEncode(CtrXor(k, last.iv, Utf8Encode(input.v)))
                      /\ parts[2] = HexEncode(GcmTag(k, last.iv, HexDecode(parts[3])))

C15_Witness ==
    /\ last.op = "encrypt" /\ env = NoSecret
    /\ input = Str(<<97, 58>>)
    /\ last.warned /\ last.keys = {2}
    /\ Len(Split(last.res.val.v, Colon)) = 3

\* C16: in any interleaving of the encrypt and decrypt calls of the request
\* handlers of one process, a call's result depends only on its argument,
\* the process key and (for encrypt) its own nonce: two calls of the same
\* function with the same argument and the same nonce, one after the other,
\* return the same result.
C16_Stateless ==
    [][(/\ last.op \in {"encrypt", "decrypt"}
        /\ last'.op = last.op
        /\ last'.arg = last.arg
        /\ last'.iv = last.iv
        /\ last'.tamper = last.tamper)
       => last'.res = last.res]_vars

\* every stored check was written under the secret configured now
WrittenUnderCurrentSecret ==
    /\ env \in Secrets
    /\ \A i \in 1..Len(db.wellness) : db.wellness[i].env = env

\* C12: a decryption failure is never swallowed: when a decrypt call made
\* for a read throws, the read is aborted and the caller gets the failure
\* (status 500 and no document), never a value for the field.  Stated for
\* the reads of a process with a configured secret.
C12_NeverSwallowed ==
    (WrittenUnderCurrentSecret /\ resp.failed) =>
        (resp.status = 500 /\ resp.data = <<>>)

WellnessOps == {"POST /wellness", "GET /wellness/today", "GET /wellness/history"}

\* stored check d holds undamaged tokens made under the secret configured now
ValidUnderCurrentKey(d) ==
    /\ env \in Secrets /\ d.env = env
    /\ d.analysis \in StoreTokens
    /\ \A k \in 1..Len(d.answers) : d.answers[k] \in StoreTokens

\* C14: every response that returns a wellness check (POST /api/wellness,
\* GET /api/wellness/today, GET /api/wellness/history) carries analysis and
\* every answers value in plaintext when the stored tokens are valid under
\* the current key; no response carries a token in their place.
C14_TransparentReads ==
    (resp.op \in WellnessOps /\ resp.status # 500) =>
        \A k \in 1..Len(resp.data) :
            ValidUnderCurrentKey(db.wellness[resp.ids[k]]) =>
                resp.data[k] = db.wellness[resp.ids[k]].plain

\* C19: under any interleaving of POST /api/wellness requests, a user has at
\* most one stored wellness check on any calendar day.
C19_OnePerDay ==
    \A i, j \in 1..Len(db.wellness) :
        (db.wellness[i].userId = db.wellness[j].userId
         /\ db.wellness[i].day = db.wellness[j].day) => i = j

\* the shape of what encrypt returns: nonce:tag:ciphertext in lowercase hex
IsToken(v) ==
    LET parts == Split(v, Colon)
    IN  /\ Len(parts) = 3
        /\ Len(parts[1]) = 2 * IV_LENGTH
        /\ Len(parts[2]) = 2 * AUTH_TAG_LENGTH
        /\ parts[3] # <<>>
        /\ \A k \in 1..3 : LowerHex(parts[k])

\* C13: in every state of the store, the stored chat session title, chat
\* message content, wellness analysis and every wellness answers value is an
\* encrypt token, never the plaintext.
C13_OnlyTokensStored ==
    /\ \A i \in 1..Len(db.sessions) :
          IsToken(db.sessions[i].text) /\ db.sessions[i].text # db.sessions[i].plain
    /\ \A i \in 1..Len(db.messages) :
          IsToken(db.messages[i].text) /\ db.messages[i].text # db.messages[i].plain
    /\ \A i \in 1..Len(db.wellness) :
          /\ IsToken(db.wellness[i].analysis)
          /\ \A k \in 1..Len(db.wellness[i].answers) :
                 /\ IsToken(db.wellness[i].answers[k])
                 /\ db.wellness[i].answers[k] # db.wellness[i].plain.answers[k]

\* the user on whose behalf a step acts: the user of the request that moves,
\* or of the response an undivided handler gives
Actor ==
    IF \E r \in ReqIds : reqs[r].pc # "idle" /\ reqs'[r] # reqs[r]
    THEN reqs[CHOOSE r \in ReqIds : reqs[r].pc # "idle" /\ reqs'[r] # reqs[r]].user
    ELSE resp'.user

InSeq(x, seq) == \E k \in 1..Len(seq) : seq[k] = x

\* every document a chat response returns belongs to the requester
ReturnsOwn ==
    resp.op \in {"getChatSessions", "getChatSession", "createChatSession",
                 "updateChatSession", "addChatMessage"} =>
        \A k \in 1..Len(resp.data) : resp.data[k].userId = resp.user

\* a request naming a session of another user was answered 404
NotFoundForOthers ==
    (/\ resp.op \in {"getChatSession", "updateChatSession", "addChatMessage",
                      "deleteChatSession"}
     /\ \E i \in 1..Len(db.sessions) :
           /\ db.sessions[i].sessionId = resp.ids[1]
           /\ db.sessions[i].userId # resp.user)
    => resp.status \in {400, 404}

\* a step changes, removes or adds only documents of the user it acts for
WritesOwn ==
    /\ \A k \in 1..Len(db.sessions) :
          ~InSeq(db.sessions[k], db'.sessions) => db.sessions[k].userId = Actor
    /\ \A k \in 1..Len(db'.sessions) :
          ~InSeq(db'.sessions[k], db.sessions) => db'.sessions[k].userId = Actor
    /\ \A k \in 1..Len(db.messages) :
          ~InSeq(db.messages[k], db'.messages) => db.messages[k].userId = Actor
    /\ \A k \in 1..Len(db'.messages) :
          ~InSeq(db'.messages[k], db.messages) => db'.messages[k].userId = Actor

C18_SoftDelete ==
    [][/\ \A r \in ReqIds :
             (reqs[r].pc \in {"del_soft", "del_messages", "del_session"}
              /\ reqs'[r] # reqs[r]) =>
                 /\ db'.messages = db.messages
                 /\ Len(db'.sessions) = Len(db.sessions)
                 /\ reqs'[r].pc = "idle" =>
                        \E k \in 1..Len(db'.sessions) :
                            /\ db'.sessions[k].sessionId = reqs[r].sid
                            /\ ~db'.sessions[k].isActive
       /\ (resp'.op = "getChatSessions" /\ UNCHANGED <<db, reqs>>) =>
             \A k \in 1..Len(resp'.data) :
                 \E i \in 1..Len(db.sessions) :
                     /\ db.sessions[i].sessionId = resp'.data[k].sessionId
                     /\ db.sessions[i].isActive]_vars

\* C20: under any interleaving of addChatMessage and deleteChatSession
\* (hard-delete controller), every stored message has a stored session with
\* the same sessionId and userId.
C20_NoOrphanMessage ==
    \A k \in 1..Len(db.messages) :
        FindSession(db.messages[k].sessionId, db.messages[k].userId) # 0


\* the calendar days on which user u has at least one wellness check
CheckDays(u) ==
    {db.wellness[i].day : i \in {j \in 1..Len(db.wellness) : db.wellness[j].userId = u}}

\* the number of consecutive days of D that end with day `end`
RunEndingAt(D, end) ==
    Cardinality({d \in 1..end : \A x \in d..end : x \in D})

\* the consecutive days of D that end today or, when today is not in D,
\* yesterday
StreakOf(D) ==
    IF now \in D THEN RunEndingAt(D, now)
    ELSE IF now > 1 THEN RunEndingAt(D, now - 1)
    ELSE 0

ConsecutiveDays(u) == StreakOf(CheckDays(u))

\* C21: GET /api/wellness/streak answers with the number of consecutive
\* calendar days, ending today or (without a check today) yesterday, on each
\* of which the user has a wellness check; a day without a check is never
\* counted across.  Stated for stores that hold at most one check per user
\* and day.
C21_Streak ==
    [][(resp'.op = "GET /wellness/streak" /\ UNCHANGED <<env, now, db, reqs>>
        /\ C19_OnePerDay)
        => resp'.data = <<ConsecutiveDays(resp'.user)>>]_vars


\* C22: in the find and findOne post-hooks, an answers entry whose decrypt
\* fails keeps its stored value, every other entry is replaced by what
\* decrypt returns, the map keeps its key set, and the hook raises no error:
\* the request fails only when the analysis getter throws.
C22_HookKeepsFailed ==
    [][(resp'.op = "GET /wellness/today" /\ UNCHANGED <<env, now, db, reqs>>
        /\ getTodayCheck(resp'.user) # 0)
        => LET d == db.wellness[getTodayCheck(resp'.user)]
           IN  IF resp'.status = 500
               THEN \E rkey \in RandomKeys(env) :
                        GetAnalysis(Str(d.analysis), env, rkey).res.thrown
               ELSE /\ resp'.status = 200
                    /\ DOMAIN resp'.data[1].answers = DOMAIN d.answers
                    /\ \E rks \in KeyDraws(env, Len(d.answers)) :
                          \A k \in 1..Len(d.answers) :
                              resp'.data[1].answers[k] =
                                  IF StoreDecrypt(Str(d.answers[k]), env, rks[k]).res.thrown
                                  THEN d.answers[k]
                                  ELSE StoreDecrypt(Str(d.answers[k]), env, rks[k]).res.val.v]_vars

\* GET /api/wellness/today has answered 200 with a check of two answers: the
\* decrypt of one failed and it is returned as stored, the other is returned
\* in plaintext
C22_Witness ==
    /\ resp.op = "GET /wellness/today" /\ resp.status = 200 /\ resp.failed
    /\ resp.ids = <<1>>
    /\ Len(db.wellness[1].answers) = 2
    /\ \E k, m \in 1..2 :
          /\ db.wellness[1].answers[k] \notin StoreTokens
          /\ resp.data[1].answers[k] = db.wellness[1].answers[k]
          /\ db.wellness[1].answers[m] \in StoreTokens
          /\ resp.data[1].answers[m] = <<97>>

\* every stored answers value of check d is a token that one decrypt, under
\* the secret it was written with, maps to the submitted answer
SingleLayer(d) ==
    /\ d.env \in Secrets
    /\ \A k \in 1..Len(d.answers) :
          /\ d.answers[k] \in StoreTokens
          /\ DecryptTable[d.answers[k], d.env, 1].res = Returned(Str(d.plain.answers[k]))

\* C23: a save() of a wellness check whose stored answers are single-layer
\* tokens leaves them single-layer tokens of the same answers; pre('save')
\* does not encrypt a token again.  Stated for a process whose configured
\* secret is the one the check was written with.
C23_SingleLayerAfterSave ==
    [][\A i \in 1..Len(db.wellness) :
          (/\ Len(db'.wellness) = Len(db.wellness)
           /\ db'.wellness[i].saves > db.wellness[i].saves
           /\ db.wellness[i].env = env
           /\ SingleLayer(db.wellness[i]))
          => SingleLayer(db'.wellness[i])]_vars


\* a request body with an integer mood in 0..10 and a non-empty analysis
MoodInRange(b) ==
    /\ b.mood.t = "number" /\ b.mood.v[1] \in 0..10
    /\ NonEmptyString(b.text)

\* C24: POST /api/wellness by a user with no check today, with an integer
\* mood in 0..10 and a non-empty analysis, is accepted: the handler goes on
\* to create the check, answers 201, and the stored mood is the submitted
\* one.  The 201 is stated for a process with a configured secret.
C24_MoodRange ==
    [][/\ \A r \in ReqIds, u \in Users, b \in WellnessBodies :
             (PostWellness(r, u, b) /\ getTodayCheck(u) = 0 /\ MoodInRange(b))
             => reqs'[r].pc = "create"
       /\ \A r \in ReqIds :
             (PostWellnessCreate(r) /\ MoodInRange(reqs[r].body))
             => /\ Len(db'.wellness) = Len(db.wellness) + 1
                /\ db'.wellness[Len(db'.wellness)].mood = reqs[r].body.mood.v[1]
                /\ env \in Secrets => resp'.status = 201]_vars


\* deleteChatSession has succeeded for the session with this id: the id was
\* given out and no active session document carries it
Deleted(sid) ==
    /\ sid < db.nextSid
    /\ \A i \in 1..Len(db.sessions) :
          db.sessions[i].sessionId = sid => ~db.sessions[i].isActive

\* C25: once deleteChatSession has succeeded for a session, every later
\* getChatSession, updateChatSession and addChatMessage (with a valid body)
\* for that sessionId is answered 404, and addChatMessage does not go on to
\* create a message.
C25_DeletedClosed ==
    [][\A u \in Users, sid \in SessionIds :
          Deleted(sid) =>
              /\ GetChatSession(u, sid) => resp'.status = 404
              /\ UpdateChatSession(u, sid) => resp'.status = 404
              /\ \A r \in ReqIds, b \in ContentBodies :
                    (AddChatMessage(r, u, sid, b) /\ ~Falsy(b.text))
                    => (resp'.status = 404 /\ reqs' = reqs)]_vars


\* the entries of user u whose plaintext title, plaintext content or a tag
\* contains q, letter case ignored, with the mood asked for
PlaintextHits(u, q, m) ==
    {i \in 1..Len(db.journal) :
        /\ db.journal[i].userId = u
        /\ Falsy(q) \/ RegexMatch(db.journal[i].plain.title, q.v)
                    \/ RegexMatch(db.journal[i].plain.content, q.v)
                    \/ \E k \in 1..Len(db.journal[i].tags) :
                          RegexMatch(db.journal[i].tags[k], q.v)
        /\ Falsy(m) \/ db.journal[i].mood = m.v}

\* C26: GET /api/journal/search returns exactly the requesting user's
\* entries whose plaintext title, plaintext content or a tag contains the
\* query, letter case ignored, restricted by the mood filter when given.
C26_SearchPlaintext ==
    [][\A u \in Users, q \in SearchQueries, m \in MoodFilters :
          SearchJournalEntries(u, q, m)
          => /\ resp'.status = 200
             /\ resp'.ids = NewestFirst(PlaintextHits(u, q, m))]_vars


\* what the title and content of entry d read back as, under secret e
ReadsBack(d, e) ==
    [title |-> DecryptTable[d.title, e, 1].res, content |-> DecryptTable[d.content, e, 1].res]

\* the fields of entry d that body b omits are those of entry c: mood, tags
\* and isPrivate as stored, title and content as they read back, both stored
\* as single-layer tokens
OmittedKept(b, c, d) ==
    /\ b.title = JsUndefined =>
          /\ d.title \in StoreTokens
          /\ ReadsBack(d, env).title = ReadsBack(c, env).title
    /\ b.content = JsUndefined =>
          /\ d.content \in StoreTokens
          /\ ReadsBack(d, env).content = ReadsBack(c, env).content
    /\ b.mood = JsUndefined => d.mood = c.mood
    /\ b.tags = JsUndefined => d.tags = c.tags
    /\ b.isPrivate = JsUndefined => d.isPrivate = c.isPrivate

\* C28: the write of updateJournalEntry leaves every field its body omits
\* with the value the entry had before the write; an omitted title or
\* content reads back as the same plaintext and is stored as a single-layer
\* token.
C28_PartialUpdate ==
    [][\A r \in ReqIds :
          UpdateWrite(r)
          => OmittedKept(reqs[r].body, db.journal[reqs[r].sid],
                         db'.journal[reqs[r].sid])]_vars

\* the same, against the entry as the handler found it
C28_AgainstEntryFound ==
    [][\A r \in ReqIds :
          UpdateWrite(r)
          => OmittedKept(reqs[r].body, reqs[r].entry, db'.journal[reqs[r].sid])]_vars


\* C27: getMindfulnessStreak answers with totalDays, the number of distinct
\* calendar days on which the user sent a message with role 'user', and
\* streak, the number of consecutive such days ending today or (with none
\* today) yesterday; streak is 0 when the most recent such day is more than
\* one day ago, and both are 0 without such messages.
C27_MindfulnessStreak ==
    [][\A u \in Users :
          GetMindfulnessStreak(u)
          => resp'.data = <<[streak |-> StreakOf(uniqueDaysSet(u)),
                             totalDays |-> Cardinality(uniqueDaysSet(u))]>>]_vars

\* the streak was asked for by a user who chatted on the two days before
\* today and not today, and who has messages of another day or role beside
C27_Witness ==
    /\ resp.op = "getMindfulnessStreak"
    /\ resp.data = <<[streak |-> 2, totalDays |-> 2]>>
    /\ uniqueDaysSet(resp.user) = {now - 2, now - 1}
    /\ Len(db.messages) = 3


\* the number of places in cs where t starts
Occurrences(cs, t) ==
    Cardinality({i \in 0..(Len(cs) - Len(t)) : SubSeq(cs, i + 1, i + Len(t)) = t})

==========================================================================
